---- MODULE Spec2Model ----
(***************************************************************************)
(* Model of lanyard_server.py: the Discord user-id validator, the three    *)
(* MCP tools (get_user_presence, get_user_spotify, get_user_kv) with their *)
(* single awaited HTTP GET, the exception dispatch and the text renderers. *)
(*                                                                         *)
(* A Python str is a sequence of one-character strings; a character that   *)
(* is not ASCII is written by its code point ("U+0663").  A JSON value is  *)
(* a tagged record: [t |-> "str", v |-> "alice"], [t |-> "null"], ...; a   *)
(* JSON object is the sequence of its <<key, value>> pairs in insertion    *)
(* order (a Python dict iterates in that order).                           *)
(***************************************************************************)
EXTENDS Integers, Sequences, FiniteSets, TLC

VARIABLES
    pc,        \* per invocation: "idle", "awaiting" (the GET is in flight), "done", "failed"
    tool,      \* per invocation: the tool the caller invoked
    user_id,   \* per invocation: the argument the caller passed
    clean_id,  \* per invocation: the local clean_id of the running coroutine
    requests,  \* per invocation: the URLs it has requested, in order
    outcome,   \* per invocation: what its awaited GET ended with
    returned,  \* per invocation: the text it returned
    arg,       \* the input of a function or tool run on its own
    ret        \* what that run gave

vars == <<pc, tool, user_id, clean_id, requests, outcome, returned, arg, ret>>

(***************************************************************************)
(* Bounds of the model.                                                    *)
(***************************************************************************)
\* Longest digit run the validator is tried on (the code accepts 17..20).
MaxIdLen == 22
\* Number of tool invocations that may be in flight at once.
NumInv == 2

(***************************************************************************)
(* Characters and Python str methods                                       *)
(***************************************************************************)
AsciiDigit == {"0", "1", "2", "3", "4", "5", "6", "7", "8", "9"}

\* Characters outside ASCII for which str.isdigit() is true:
\* SUPERSCRIPT TWO and ARABIC-INDIC DIGIT THREE.
NonAsciiDigit == {"U+00B2", "U+0663"}

Whitespace == {" ", "\t", "\n"}

\* str.strip(): drop the leading and the trailing whitespace characters.
strip(s) ==
    LET keep == {i \in 1..Len(s) : s[i] \notin Whitespace}
    IN  IF keep = {} THEN <<>>
        ELSE LET first == CHOOSE i \in keep : \A j \in keep : i <= j
                 last  == CHOOSE i \in keep : \A j \in keep : j <= i
             IN  SubSeq(s, first, last)

\* str.isdigit(): at least one character, and every character a Unicode digit.
isdigit(s) == Len(s) > 0 /\ \A i \in 1..Len(s) : s[i] \in AsciiDigit \cup NonAsciiDigit

(***************************************************************************)
(* sanitize_user_id: the value returned, or the ValueError raised.         *)
(***************************************************************************)
Returned(v) == [ok |-> TRUE, value |-> v, error |-> ""]

ValueError(msg) == [ok |-> FALSE, value |-> <<>>, error |-> msg]

sanitize_user_id(raw) ==
    LET clean == strip(raw)
    IN  IF Len(clean) = 0 THEN ValueError("User ID cannot be empty")
        ELSE IF ~isdigit(clean) THEN ValueError("User ID must contain only digits")
        ELSE IF Len(clean) < 17 \/ Len(clean) > 20
             THEN ValueError("User ID must be between 17-20 digits")
        ELSE Returned(clean)

(***************************************************************************)
(* JSON values as Python sees them after response.json()                   *)
(***************************************************************************)
None == [t |-> "null"]

JStr(s) == [t |-> "str", v |-> s]

JBool(b) == [t |-> "bool", v |-> b]

JInt(n) == [t |-> "int", v |-> n]

\* An integer too large for datetime.fromtimestamp (it raises there).
JHuge == [t |-> "hugeint"]

JObj(pairs) == [t |-> "obj", v |-> pairs]

JList(items) == [t |-> "list", v |-> items]

\* The validated identifier when it is interpolated into a text.
Chars(s) == [t |-> "chars", v |-> s]

EmptyObj == JObj(<<>>)

EmptyList == JList(<<>>)

IsObj(x) == x.t = "obj"

\* Python truth value of a value (if x: ...).
Truthy(x) ==
    CASE x.t = "null" -> FALSE
      [] x.t = "bool" -> x.v
      [] x.t = "str" -> x.v # ""
      [] x.t = "int" -> x.v # 0
      [] x.t = "hugeint" -> TRUE
      [] x.t = "obj" -> Len(x.v) > 0
      [] x.t = "list" -> Len(x.v) > 0
      [] x.t = "chars" -> Len(x.v) > 0

HasKey(d, k) == \E i \in 1..Len(d.v) : d.v[i][1] = k

\* dict.get(k) where the code writes dict.get(k, default).
dict_get_without_default(d, k, default) ==
    IF HasKey(d, k)
    THEN d.v[CHOOSE i \in 1..Len(d.v) : d.v[i][1] = k][2]
    ELSE None

\* dict.get(k, default); d.get(k) is dict_get(d, k, None).
dict_get(d, k, default) ==
    IF HasKey(d, k)
    THEN d.v[CHOOSE i \in 1..Len(d.v) : d.v[i][1] = k][2]
    ELSE default

(***************************************************************************)
(* Texts.  A text is the sequence of the fragments appended to it; NL is   *)
(* a line break.  A fragment keeps its format string (text), the values    *)
(* interpolated into it (vals), its leading glyph and the section of the   *)
(* output it belongs to.                                                   *)
(***************************************************************************)
Frag(sec, glyph, text, vals) == [sec |-> sec, glyph |-> glyph, text |-> text, vals |-> vals]

NL == Frag("nl", "", "\n", <<>>)

Line(sec, glyph, text, vals) == <<Frag(sec, glyph, text, vals), NL>>

\* str.strip() of an assembled text: its leading and trailing line breaks go.
strip_text(out) ==
    LET keep == {i \in 1..Len(out) : out[i] # NL}
    IN  IF keep = {} THEN <<>>
        ELSE LET first == CHOOSE i \in keep : \A j \in keep : i <= j
                 last  == CHOOSE i \in keep : \A j \in keep : j <= i
             IN  SubSeq(out, first, last)

\* What a function call gives: the value it returns or the exception it raises.
Return(v) == [raised |-> FALSE, exc |-> "", status |-> 0, out |-> v]

Raise(exc) == [raised |-> TRUE, exc |-> exc, status |-> 0, out |-> <<>>]

RaiseStatus(code) == [raised |-> TRUE, exc |-> "HTTPStatusError", status |-> code, out |-> <<>>]

(***************************************************************************)
(* format_timestamp, format_spotify_data, format_activities, format_kv_data*)
(***************************************************************************)
\* Milliseconds to "%Y-%m-%d %H:%M:%S UTC": the whole seconds; any failure
\* of the conversion gives "Unknown".
format_timestamp(timestamp_ms) ==
    IF timestamp_ms.t = "int"
    THEN [t |-> "utc", v |-> timestamp_ms.v \div 1000]
    ELSE JStr("Unknown")

format_spotify_data(spotify) ==
    IF ~Truthy(spotify)
    THEN Return(<<Frag("spotify", "", "Not listening to Spotify", <<>>)>>)
    ELSE IF ~IsObj(spotify) THEN Raise("AttributeError")
    ELSE
    LET song == dict_get(spotify, "song", JStr("Unknown"))
        artist == dict_get(spotify, "artist", JStr("Unknown"))
        album == dict_get(spotify, "album", JStr("Unknown"))
        timestamps == dict_get(spotify, "timestamps", EmptyObj)
    IN  IF ~IsObj(timestamps) THEN Raise("AttributeError")
        ELSE
        LET start == dict_get(timestamps, "start", None)
            end == dict_get(timestamps, "end", None)
        IN  Return(
               Line("spotify", "U+1F3B5", " Spotify Activity:", <<>>)
            \o Line("spotify", "", "  Song: {}", <<song>>)
            \o Line("spotify", "", "  Artist: {}", <<artist>>)
            \o Line("spotify", "", "  Album: {}", <<album>>)
            \o (IF Truthy(start)
                THEN Line("spotify", "", "  Started: {}", <<format_timestamp(start)>>)
                ELSE <<>>)
            \o (IF Truthy(end)
                THEN Line("spotify", "", "  Ends: {}", <<format_timestamp(end)>>)
                ELSE <<>>))

type_names(activity_type) ==
    IF activity_type.t # "int" THEN "Activity"
    ELSE CASE activity_type.v = 0 -> "Playing"
           [] activity_type.v = 1 -> "Streaming"
           [] activity_type.v = 2 -> "Listening to"
           [] activity_type.v = 3 -> "Watching"
           [] activity_type.v = 4 -> "Custom Status"
           [] activity_type.v = 5 -> "Competing in"
           [] OTHER -> "Activity"

\* One pass of the loop of format_activities, for the i-th activity.
format_activity(i, activity) ==
    LET name == dict_get(activity, "name", JStr("Unknown"))
        activity_type == dict_get(activity, "type", JInt(0))
        details == dict_get(activity, "details", None)
        state == dict_get(activity, "state", None)
    IN  <<NL>>
        \o Line("activities", "", "{}. {} {}", <<JInt(i), JStr(type_names(activity_type)), name>>)
        \o (IF Truthy(details) THEN Line("activities", "", "   Details: {}", <<details>>) ELSE <<>>)
        \o (IF Truthy(state) THEN Line("activities", "", "   State: {}", <<state>>) ELSE <<>>)

RECURSIVE format_activities_from(_, _)
format_activities_from(items, i) ==
    IF i > Len(items) THEN <<>>
    ELSE format_activity(i, items[i]) \o format_activities_from(items, i + 1)

format_activities(activities) ==
    IF ~Truthy(activities)
    THEN Return(<<Frag("activities", "", "No activities", <<>>)>>)
    ELSE IF activities.t # "list" \/ \E i \in 1..Len(activities.v) : ~IsObj(activities.v[i])
    THEN Raise("AttributeError")
    ELSE Return(format_activities_from(activities.v, 1))

RECURSIVE format_kv_items(_, _)
format_kv_items(pairs, i) ==
    IF i > Len(pairs) THEN <<>>
    ELSE Line("kv", "", "  {}: {}", <<JStr(pairs[i][1]), pairs[i][2]>>)
         \o format_kv_items(pairs, i + 1)

format_kv_data(kv) ==
    IF ~Truthy(kv)
    THEN Return(<<Frag("kv", "", "No KV data", <<>>)>>)
    ELSE IF ~IsObj(kv) THEN Raise("AttributeError")
    ELSE Return(Line("kv", "U+1F4DD", " Custom KV Data:", <<>>) \o format_kv_items(kv.v, 1))

(***************************************************************************)
(* The three tools, from the parsed body (result) on: the part of each try *)
(* block after response.json().                                            *)
(***************************************************************************)
Unsuccessful(id) ==
    <<Frag("error", "U+274C", " API returned unsuccessful response for user {}", <<Chars(id)>>)>>

status_emoji(status) ==
    CASE status = "online" -> "U+1F7E2"
      [] status = "idle" -> "U+1F7E1"
      [] status = "dnd" -> "U+1F534"
      [] status = "offline" -> "U+26AB"
      [] OTHER -> "U+26AA"

\* str.upper() on the status words the model uses.
upper(status) ==
    CASE status = "online" -> "ONLINE"
      [] status = "idle" -> "IDLE"
      [] status = "dnd" -> "DND"
      [] status = "offline" -> "OFFLINE"
      [] status = "unknown" -> "UNKNOWN"
      [] status = "invisible" -> "INVISIBLE"
      [] OTHER -> status

\* if not result.get("success"): return the unsuccessful-response text
is_successful_by_default(result) == Truthy(dict_get(result, "success", JBool(TRUE)))

is_successful(result) == Truthy(dict_get(result, "success", None))

\* if data.get("listening_to_spotify") and spotify:
show_spotify_unconditionally(data) == Truthy(dict_get(data, "spotify", None))

show_spotify(data) ==
    Truthy(dict_get(data, "listening_to_spotify", None)) /\ Truthy(dict_get(data, "spotify", None))

\* f"@{username}" or f"{username}#{discriminator}"
user_display(username, discriminator) ==
    IF discriminator.t = "str" /\ discriminator.v = "0"
    THEN [text |-> "@{}", vals |-> <<username>>]
    ELSE [text |-> "{}#{}", vals |-> <<username, discriminator>>]

get_user_presence_body(id, result) ==
    IF ~IsObj(result) THEN Raise("AttributeError")
    ELSE IF ~is_successful(result) THEN Return(Unsuccessful(id))
    ELSE
    LET data == dict_get(result, "data", EmptyObj)
    IN  IF ~IsObj(data) THEN Raise("AttributeError")
    ELSE
    LET discord_user == dict_get(data, "discord_user", EmptyObj)
    IN  IF ~IsObj(discord_user) THEN Raise("AttributeError")
    ELSE
    LET username == dict_get(discord_user, "username", JStr("Unknown"))
        user_id_str == dict_get(discord_user, "id", Chars(id))
        discriminator == dict_get(discord_user, "discriminator", JStr("0"))
        display == user_display(username, discriminator)
        status == dict_get(data, "discord_status", JStr("unknown"))
    IN  IF status.t # "str" THEN Raise("AttributeError")
    ELSE
    LET spotify == dict_get(data, "spotify", None)
        spotify_block == IF show_spotify(data)
                         THEN format_spotify_data(spotify)
                         ELSE Return(<<>>)
        activities == dict_get(data, "activities", EmptyList)
        activities_block == IF Truthy(activities) THEN format_activities(activities)
                            ELSE Return(<<>>)
        kv == dict_get(data, "kv", EmptyObj)
        kv_block == IF Truthy(kv) THEN format_kv_data(kv) ELSE Return(<<>>)
    IN  IF spotify_block.raised THEN spotify_block
        ELSE IF activities_block.raised THEN activities_block
        ELSE IF kv_block.raised THEN kv_block
        ELSE Return(strip_text(
               <<Frag("header", "U+2705", " Discord Presence for {} ({})",
                      <<display, user_id_str>>), NL, NL>>
            \o <<Frag("status", "", "Status: {} {}",
                      <<JStr(status_emoji(status.v)), JStr(upper(status.v))>>), NL, NL>>
            \o (IF Truthy(dict_get(data, "active_on_discord_desktop", None))
                THEN Line("desktop", "U+1F4BB", " Active on Desktop", <<>>) ELSE <<>>)
            \o (IF Truthy(dict_get(data, "active_on_discord_mobile", None))
                THEN Line("mobile", "U+1F4F1", " Active on Mobile", <<>>) ELSE <<>>)
            \o <<NL>>
            \o (IF spotify_block.out # <<>> THEN spotify_block.out \o <<NL>> ELSE <<>>)
            \o (IF Truthy(activities)
                THEN <<Frag("activities", "U+1F3AE", " Activities:", <<>>)>>
                     \o activities_block.out \o <<NL>>
                ELSE <<>>)
            \o kv_block.out))

get_user_spotify_body(id, result) ==
    IF ~IsObj(result) THEN Raise("AttributeError")
    ELSE IF ~is_successful(result) THEN Return(Unsuccessful(id))
    ELSE
    LET data == dict_get(result, "data", EmptyObj)
    IN  IF ~IsObj(data) THEN Raise("AttributeError")
    ELSE
    LET discord_user == dict_get(data, "discord_user", EmptyObj)
    IN  IF ~IsObj(discord_user) THEN Raise("AttributeError")
    ELSE
    LET username == dict_get(discord_user, "username", JStr("Unknown"))
        listening == dict_get(data, "listening_to_spotify", JBool(FALSE))
        spotify == dict_get(data, "spotify", None)
    IN  IF ~Truthy(listening) \/ ~Truthy(spotify)
        THEN Return(<<Frag("spotify", "U+1F3B5", " {} is not currently listening to Spotify",
                           <<username>>)>>)
        ELSE
        LET block == format_spotify_data(spotify)
            album_art == dict_get(spotify, "album_art_url", JStr(""))
            track_id == dict_get(spotify, "track_id", JStr(""))
        IN  IF block.raised THEN block
            ELSE Return(strip_text(
                   <<Frag("header", "U+2705", " Spotify Status for {}", <<username>>), NL, NL>>
                \o block.out
                \o (IF Truthy(album_art)
                    THEN Line("spotify", "", "  Album Art: {}", <<album_art>>) ELSE <<>>)
                \o (IF Truthy(track_id)
                    THEN Line("spotify", "", "  Track URL: https://open.spotify.com/track/{}",
                              <<track_id>>)
                    ELSE <<>>)))

get_user_kv_body(id, result) ==
    IF ~IsObj(result) THEN Raise("AttributeError")
    ELSE IF ~is_successful(result) THEN Return(Unsuccessful(id))
    ELSE
    LET data == dict_get(result, "data", EmptyObj)
    IN  IF ~IsObj(data) THEN Raise("AttributeError")
    ELSE
    LET discord_user == dict_get(data, "discord_user", EmptyObj)
    IN  IF ~IsObj(discord_user) THEN Raise("AttributeError")
    ELSE
    LET username == dict_get(discord_user, "username", JStr("Unknown"))
        kv == dict_get(data, "kv", EmptyObj)
    IN  IF ~Truthy(kv)
        THEN Return(<<Frag("kv", "U+1F4DD", " {} has no custom KV data set", <<username>>)>>)
        ELSE
        LET block == format_kv_data(kv)
        IN  IF block.raised THEN block
            ELSE Return(strip_text(
                   <<Frag("header", "U+2705", " KV Data for {}", <<username>>), NL, NL>>
                \o block.out))

(***************************************************************************)
(* The HTTP call and the except clauses                                    *)
(***************************************************************************)
LANYARD_API_BASE == "https://api.lanyard.rest/v1"

\* f"{LANYARD_API_BASE}/users/{clean_id}"
url_for(id) == <<LANYARD_API_BASE, "/users/", id>>

\* What one `await client.get(url, timeout=REQUEST_TIMEOUT)` ends with: a
\* response (its status, and its body as response.json() decodes it, or a
\* body that is not JSON), or an exception of httpx.
Response(code, body) ==
    [kind |-> "response", status |-> code, wellformed |-> TRUE, body |-> body, exc |-> ""]

NotJson(code) ==
    [kind |-> "response", status |-> code, wellformed |-> FALSE, body |-> None, exc |-> ""]

Failure(exc) ==
    [kind |-> "raise", status |-> 0, wellformed |-> FALSE, body |-> None, exc |-> exc]

NoOutcome == [kind |-> "none", status |-> 0, wellformed |-> FALSE, body |-> None, exc |-> ""]

\* A client that sends the request again.
client_get_with_retry(sent, url) == Append(Append(sent, url), url)

\* The requests one client.get puts on the wire (httpx neither retries nor
\* follows redirects by default).
client_get(sent, url) == Append(sent, url)

\* The direct base class of each exception class the try blocks can meet.
base_class(cls) ==
    CASE cls = "HTTPStatusError" -> "HTTPError"
      [] cls = "ConnectTimeout" -> "TimeoutException"
      [] cls = "ReadTimeout" -> "TimeoutException"
      [] cls = "PoolTimeout" -> "TimeoutException"
      [] cls = "TimeoutException" -> "TransportError"
      [] cls = "ConnectError" -> "NetworkError"
      [] cls = "ReadError" -> "NetworkError"
      [] cls = "NetworkError" -> "TransportError"
      [] cls = "RemoteProtocolError" -> "TransportError"
      [] cls = "TransportError" -> "RequestError"
      [] cls = "RequestError" -> "HTTPError"
      [] cls = "HTTPError" -> "Exception"
      [] cls = "JSONDecodeError" -> "ValueError"
      [] cls = "ValueError" -> "Exception"
      [] cls = "AttributeError" -> "Exception"
      [] cls = "Exception" -> "BaseException"
      [] OTHER -> "BaseException"

RECURSIVE isinstance(_, _)
isinstance(exc, cls) ==
    \/ exc = cls
    \/ exc # "BaseException" /\ isinstance(base_class(exc), cls)

\* The clauses with the catch-all first, and without the catch-all.
except_clauses_catch_all_first == <<"Exception", "HTTPStatusError", "TimeoutException">>

except_clauses_without_catch_all == <<"HTTPStatusError", "TimeoutException">>

\* The except clauses of a tool, in the order they are written.
except_clauses == <<"HTTPStatusError", "TimeoutException", "Exception">>

\* The clause that handles an exception: the first that matches (0: none).
handler_of(exc) ==
    LET match == {i \in 1..Len(except_clauses) : isinstance(exc, except_clauses[i])}
    IN  IF match = {} THEN 0 ELSE CHOOSE i \in match : \A j \in match : i <= j

not_found_text(t) ==
    IF t = "get_user_presence"
    THEN " User not found: {} (Discord user may not be using Lanyard)"
    ELSE " User not found: {}"

on_HTTPStatusError(t, id, code) ==
    IF code = 404 THEN <<Frag("error", "U+274C", not_found_text(t), <<Chars(id)>>)>>
    ELSE IF code = 429
    THEN <<Frag("error", "U+274C", " Rate limit exceeded. Please try again later.", <<>>)>>
    ELSE <<Frag("error", "U+274C", " API Error: HTTP {}", <<JInt(code)>>)>>

on_TimeoutException_cross_mark(id) ==
    <<Frag("error", "U+274C", " Request timed out while fetching user {}", <<Chars(id)>>)>>

on_TimeoutException(id) ==
    <<Frag("error", "U+23F1 U+FE0F", " Request timed out while fetching user {}", <<Chars(id)>>)>>

on_Exception(exc) == <<Frag("error", "U+274C", " Error: {}", <<JStr(exc)>>)>>

invalid_user_id(msg) == <<Frag("error", "U+274C", " Invalid user ID: {}", <<JStr(msg)>>)>>

\* response.raise_for_status(): HTTPStatusError unless the status is 2xx.
raise_for_status(o) == o.status < 200 \/ o.status > 299

tool_body(t, id, result) ==
    CASE t = "get_user_presence" -> get_user_presence_body(id, result)
      [] t = "get_user_spotify" -> get_user_spotify_body(id, result)
      [] t = "get_user_kv" -> get_user_kv_body(id, result)

\* The try block of a tool, from the point where the awaited GET ends.
try_block(t, id, o) ==
    IF o.kind = "raise" THEN Raise(o.exc)
    ELSE IF raise_for_status(o) THEN RaiseStatus(o.status)
    ELSE IF ~o.wellformed THEN Raise("JSONDecodeError")
    ELSE tool_body(t, id, o.body)

\* How an invocation ends: the text it returns, or the exception that leaves it.
Returns(text) == [returned |-> TRUE, text |-> text, exc |-> ""]

Propagates(exc) == [returned |-> FALSE, text |-> <<>>, exc |-> exc]

\* A tool from the end of the awaited GET to its return: the try block and
\* the except clause that catches what it raises.
after_get(t, id, o) ==
    LET r == try_block(t, id, o)
        h == IF r.raised THEN handler_of(r.exc) ELSE 0
    IN  IF ~r.raised THEN Returns(r.out)
        ELSE IF h = 0 THEN Propagates(r.exc)
        ELSE IF except_clauses[h] = "HTTPStatusError"
        THEN Returns(on_HTTPStatusError(t, id, r.status))
        ELSE IF except_clauses[h] = "TimeoutException"
        THEN Returns(on_TimeoutException(id))
        ELSE Returns(on_Exception(r.exc))

\* A whole invocation run on its own, given what its GET ends with: the way
\* it ends and the requests it sent.
run_tool(t, raw, o) ==
    LET v == sanitize_user_id(raw)
    IN  IF ~v.ok
        THEN [ending |-> Returns(invalid_user_id(v.error)), sent |-> <<>>]
        ELSE [ending |-> after_get(t, v.value, o),
              sent |-> client_get(<<>>, url_for(v.value))]

(***************************************************************************)
(* Inputs                                                                  *)
(***************************************************************************)
Fill(c, n) == [i \in 1..n |-> c]

\* Raw identifiers for the validator: digit runs of every length up to
\* MaxIdLen, the same with one character replaced at either end or in the
\* middle, runs of non-ASCII digits, each with and without surrounding
\* whitespace.
IdBodies ==
    UNION {   {Fill("1", n), Fill("U+0663", n)}
           \cup {[Fill("7", n) EXCEPT ![p] = c] :
                    p \in {1, (n + 1) \div 2, n} \cap (1..n),
                    c \in {"a", "-", " ", "U+00B2"}}
           : n \in 0..MaxIdLen}

Pads == {<<>>, <<" ">>, <<"\t", "\n">>}

UserIds == {l \o b \o r : l \in Pads, b \in IdBodies, r \in Pads}

IdA == Fill("1", 17)

IdB == Fill("7", 20)

\* The calls the concurrent invocations are made with: each tool, with
\* padded and plain valid identifiers, a run of non-ASCII digits, and
\* identifiers the validator rejects.
CallArgs ==
    {[tool |-> "get_user_presence", user_id |-> <<" ">> \o IdA \o <<"\n">>],
     [tool |-> "get_user_spotify", user_id |-> IdB],
     [tool |-> "get_user_kv", user_id |-> IdA],
     [tool |-> "get_user_kv", user_id |-> Fill("U+0663", 17)],
     [tool |-> "get_user_presence", user_id |-> <<>>],
     [tool |-> "get_user_spotify", user_id |-> [IdA EXCEPT ![9] = "a"]]}

\* Optional field of an object: absent, or present with one of the values.
Opt(key, values) == {<<>>} \cup {<<<<key, v>>>> : v \in values}

DiscordUsers ==
    {EmptyObj,
     JObj(<<<<"username", JStr("alice")>>, <<"id", JStr("94490510688792576")>>,
            <<"discriminator", JStr("0")>>>>),
     JObj(<<<<"username", JStr("alice")>>, <<"discriminator", JStr("1234")>>>>)}

SpotifyRecords ==
    {None, EmptyObj,
     JObj(<<<<"song", JStr("Song B")>>>>),
     JObj(<<<<"artist", JStr("Artist")>>, <<"timestamps", JObj(<<<<"end", JHuge>>>>)>>>>),
     JObj(<<<<"song", JStr("Song B")>>, <<"artist", JStr("Artist")>>, <<"album", JStr("Album")>>,
            <<"album_art_url", JStr("https://i.scdn.co/image/x")>>, <<"track_id", JStr("3kdM")>>,
            <<"timestamps", JObj(<<<<"start", JInt(1500)>>, <<"end", JInt(61000)>>>>)>>>>)}

ActivityLists ==
    {EmptyList,
     JList(<<EmptyObj>>),
     JList(<<JObj(<<<<"name", JStr("Game A")>>, <<"type", JInt(0)>>>>),
             JObj(<<<<"name", JStr("Song B")>>, <<"type", JInt(2)>>, <<"state", JStr("Chill")>>>>),
             JObj(<<<<"type", JInt(9)>>, <<"details", JStr("Ranked")>>>>)>>)}

KvMaps ==
    {EmptyObj, JObj(<<<<"b", JStr("2")>>, <<"a", JStr("1")>>>>)}

\* The data objects: every optional field absent or present, independently.
DataObjs ==
    {JObj(u \o s \o d \o m \o l \o sp \o a \o k) :
        u \in Opt("discord_user", DiscordUsers),
        s \in Opt("discord_status", {JStr("online"), JStr("invisible")}),
        d \in Opt("active_on_discord_desktop", {JBool(TRUE), JBool(FALSE)}),
        m \in Opt("active_on_discord_mobile", {JBool(TRUE)}),
        l \in Opt("listening_to_spotify", {JBool(TRUE), JBool(FALSE)}),
        sp \in Opt("spotify", SpotifyRecords),
        a \in Opt("activities", ActivityLists),
        k \in Opt("kv", KvMaps)}

\* The decoded bodies of a 2xx response: {success?: bool, data?: {...}}.
Bodies ==
    {JObj(s \o d) : s \in Opt("success", {JBool(TRUE), JBool(FALSE)}), d \in Opt("data", DataObjs)}

SomeData ==
    JObj(<<<<"discord_user", JObj(<<<<"username", JStr("alice")>>>>)>>,
           <<"kv", JObj(<<<<"a", JStr("1")>>>>)>>>>)

\* What a GET can end with when the body does not matter.
ErrorOutcomes ==
    {Response(c, None) : c \in {301, 400, 404, 429, 500, 503}}
    \cup {NotJson(200), Response(200, JList(<<>>))}
    \cup {Failure(e) : e \in {"ConnectTimeout", "ReadTimeout", "PoolTimeout", "ConnectError",
                              "ReadError", "RemoteProtocolError"}}

\* The responses the concurrent invocations receive.
CallResponses ==
    {Response(200, JObj(<<<<"success", JBool(TRUE)>>, <<"data", SomeData>>>>)),
     Response(200, JObj(<<<<"data", SomeData>>>>)),
     Response(404, None), Response(429, None), Response(500, None)}

\* The inputs of a tool run on its own.
ToolArgs ==
    {[user_id |-> u, outcome |-> o] : u \in {IdA, <<" ">> \o IdB, <<>>}, o \in ErrorOutcomes}
    \cup {[user_id |-> IdA, outcome |-> Response(c, b)] : c \in {200}, b \in Bodies}

(***************************************************************************)
(* Concurrent invocations of the tools                                     *)
(***************************************************************************)
Inv == 1..NumInv

NotRun == [done |-> FALSE]

\* Assignment to a module-level variable that every invocation reads.
global_store(f, i, v) == [j \in DOMAIN f |-> v]

\* Assignment to a local variable of invocation i: its coroutine frame only.
local_store(f, i, v) == [f EXCEPT ![i] = v]

Init ==
    /\ pc = [i \in Inv |-> "idle"]
    /\ tool = [i \in Inv |-> "none"]
    /\ user_id = [i \in Inv |-> <<>>]
    /\ clean_id = [i \in Inv |-> <<>>]
    /\ requests = [i \in Inv |-> <<>>]
    /\ outcome = [i \in Inv |-> NoOutcome]
    /\ returned = [i \in Inv |-> <<>>]
    /\ arg = <<>>
    /\ ret = NotRun

\* The caller invokes tool t: the coroutine runs to its first await, or
\* returns at once on an invalid identifier.
Call(i, t, raw) ==
    /\ pc[i] = "idle"
    /\ tool' = [tool EXCEPT ![i] = t]
    /\ user_id' = [user_id EXCEPT ![i] = raw]
    /\ LET v == sanitize_user_id(raw)
       IN  IF v.ok
           THEN /\ clean_id' = local_store(clean_id, i, v.value)
                /\ requests' = [requests EXCEPT ![i] = client_get(<<>>, url_for(v.value))]
                /\ pc' = [pc EXCEPT ![i] = "awaiting"]
                /\ UNCHANGED returned
           ELSE /\ returned' = [returned EXCEPT ![i] = invalid_user_id(v.error)]
                /\ pc' = [pc EXCEPT ![i] = "done"]
                /\ UNCHANGED <<clean_id, requests>>
    /\ UNCHANGED <<outcome, arg, ret>>

\* The awaited GET of invocation i ends with o and the coroutine runs to its end.
Resume(i, o) ==
    /\ pc[i] = "awaiting"
    /\ outcome' = [outcome EXCEPT ![i] = o]
    /\ LET e == after_get(tool[i], clean_id[i], o)
       IN  /\ returned' = [returned EXCEPT ![i] = e.text]
           /\ pc' = [pc EXCEPT ![i] = IF e.returned THEN "done" ELSE "failed"]
    /\ UNCHANGED <<tool, user_id, clean_id, requests, arg, ret>>

GetResponds(i) == \E o \in CallResponses : Resume(i, o)

GetTimesOut(i) == Resume(i, Failure("ReadTimeout"))

GetFails(i) == Resume(i, Failure("ConnectError"))

\* The caller has its text: nothing of the invocation is left.
Collect(i) ==
    /\ pc[i] = "done"
    /\ pc' = [pc EXCEPT ![i] = "idle"]
    /\ tool' = [tool EXCEPT ![i] = "none"]
    /\ user_id' = [user_id EXCEPT ![i] = <<>>]
    /\ clean_id' = [clean_id EXCEPT ![i] = <<>>]
    /\ requests' = [requests EXCEPT ![i] = <<>>]
    /\ outcome' = [outcome EXCEPT ![i] = NoOutcome]
    /\ returned' = [returned EXCEPT ![i] = <<>>]
    /\ UNCHANGED <<arg, ret>>

Next ==
    \/ \E i \in Inv, a \in CallArgs : Call(i, a.tool, a.user_id)
    \/ \E i \in Inv : GetResponds(i)
    \/ \E i \in Inv : GetTimesOut(i)
    \/ \E i \in Inv : GetFails(i)
    \/ \E i \in Inv : Collect(i)

Spec == Init /\ [][Next]_vars

\* The awaited GET ends: with a response, a failure, or at the latest when
\* the timeout of the request expires.
FairSpec == Spec /\ \A i \in Inv : WF_vars(GetResponds(i) \/ GetTimesOut(i) \/ GetFails(i))

(***************************************************************************)
(* The validator run on its own                                            *)
(***************************************************************************)
Idle ==
    /\ pc = [i \in Inv |-> "idle"]
    /\ tool = [i \in Inv |-> "none"]
    /\ user_id = [i \in Inv |-> <<>>]
    /\ clean_id = [i \in Inv |-> <<>>]
    /\ requests = [i \in Inv |-> <<>>]
    /\ outcome = [i \in Inv |-> NoOutcome]
    /\ returned = [i \in Inv |-> <<>>]

InitValidate == Idle /\ arg \in UserIds /\ ret = NotRun

Validate ==
    /\ ~ret.done
    /\ ret' = [done |-> TRUE, v |-> sanitize_user_id(arg)]
    /\ UNCHANGED <<pc, tool, user_id, clean_id, requests, outcome, returned, arg>>

SpecValidate == InitValidate /\ [][Validate]_vars

(***************************************************************************)
(* One tool run on its own                                                 *)
(***************************************************************************)
InitTool == Idle /\ arg \in ToolArgs /\ ret = NotRun

Run(t) ==
    /\ ~ret.done
    /\ ret' = [done |-> TRUE, tool |-> t, run |-> run_tool(t, arg.user_id, arg.outcome)]
    /\ UNCHANGED <<pc, tool, user_id, clean_id, requests, outcome, returned, arg>>

RunPresence == Run("get_user_presence")

RunSpotify == Run("get_user_spotify")

RunKv == Run("get_user_kv")

NextTool == RunPresence \/ RunSpotify \/ RunKv

SpecTool == InitTool /\ [][NextTool]_vars

(***************************************************************************)
(* Properties                                                              *)
(***************************************************************************)
\* The Identifier shape: ASCII digits only, 17 to 20 of them.
IsIdentifier(s) == Len(s) \in 17..20 /\ \A k \in 1..Len(s) : s[k] \in AsciiDigit

Started(i) == pc[i] # "idle"

IsInvalidText(text) == Len(text) = 1 /\ text[1].text = " Invalid user ID: {}"

\* C1: a GET is issued only with an identifier of the Identifier shape; for
\* every raw user_id whose trimmed value violates the shape the invocation
\* returns the invalid-user-ID text and makes no request.
C1_OnlyIdentifiersReachTheNetwork ==
    \A i \in Inv :
        /\ \A k \in 1..Len(requests[i]) : IsIdentifier(requests[i][k][3])
        /\ Started(i) /\ ~IsIdentifier(strip(user_id[i]))
              => pc[i] = "done" /\ requests[i] = <<>> /\ IsInvalidText(returned[i])

\* The reason the validator gives for a trimmed value outside the shape,
\* the checks in the order empty, non-digit, length.
ReasonFor(c) ==
    IF Len(c) = 0 THEN "User ID cannot be empty"
    ELSE IF \E k \in 1..Len(c) : c[k] \notin AsciiDigit THEN "User ID must contain only digits"
    ELSE "User ID must be between 17-20 digits"

\* C2: sanitize_user_id succeeds exactly when the trimmed input is a
\* digit-only string of length 17 to 20, and then returns the trimmed string
\* unchanged; otherwise it fails with the first of the reasons empty,
\* non-digit, length that applies.
C2_ValidatorContract ==
    ret.done =>
        LET c == strip(arg)
        IN  IF IsIdentifier(c)
            THEN ret.v.ok /\ ret.v.value = c
            ELSE ~ret.v.ok /\ ret.v.error = ReasonFor(c)

\* C3 as stated: every invocation that has ended issued exactly one GET,
\* whatever its user_id.
C3_ExactlyOneCallWhateverTheUserId ==
    \A i \in Inv : pc[i] = "done" => Len(requests[i]) = 1

\* C3 as amended: an invocation issues at most one GET: exactly one once
\* it is past validation with a user_id the validator accepts, whatever the
\* GET ends with, and none when the validator rejects the user_id.
C3_OneCallIffValidated ==
    \A i \in Inv :
        /\ Len(requests[i]) <= 1
        /\ Started(i) => Len(requests[i]) = (IF sanitize_user_id(user_id[i]).ok THEN 1 ELSE 0)

\* An invocation whose GET timed out has ended with one request sent, next
\* to one that was rejected and sent none.
C3_Witness ==
    \E i, j \in Inv :
        /\ pc[i] = "done" /\ outcome[i] = Failure("ReadTimeout") /\ Len(requests[i]) = 1
        /\ pc[j] = "done" /\ ~sanitize_user_id(user_id[j]).ok /\ requests[j] = <<>>

TimeoutExceptions == {"ConnectTimeout", "ReadTimeout", "PoolTimeout"}

\* The kind of error an ended invocation met, from its argument and from
\* what its GET ended with ("none": no error).
ErrorKind(raw, o) ==
    IF ~sanitize_user_id(raw).ok THEN "invalid"
    ELSE IF o.kind = "raise" THEN (IF o.exc \in TimeoutExceptions THEN "timeout" ELSE "generic")
    ELSE IF o.status = 404 THEN "not found"
    ELSE IF o.status = 429 THEN "rate limit"
    ELSE IF o.status < 200 \/ o.status > 299 THEN "http error"
    ELSE IF ~o.wellformed \/ ~IsObj(o.body) THEN "generic"
    ELSE IF ~HasKey(o.body, "success") \/ dict_get(o.body, "success", None) = JBool(FALSE)
    THEN "unsuccessful"
    ELSE "none"

\* C5 as stated: the results for invalid input, for timeout and for a generic
\* error begin with three pairwise different markers.
C5_ThreePairwiseDifferentMarkers ==
    \A i, j \in Inv :
        /\ pc[i] = "done" /\ pc[j] = "done"
        /\ ErrorKind(user_id[i], outcome[i]) \in {"invalid", "timeout", "generic"}
        /\ ErrorKind(user_id[j], outcome[j]) \in {"invalid", "timeout", "generic"}
        /\ ErrorKind(user_id[i], outcome[i]) # ErrorKind(user_id[j], outcome[j])
        => returned[i][1].glyph # returned[j][1].glyph

\* C5 as amended: every error result is a text that begins with a marker
\* glyph; the timeout result has a marker of its own (U+23F1 U+FE0F), and the
\* results of every other error kind (invalid input, generic error, not
\* found, rate limit, HTTP error, unsuccessful response) begin with the same
\* marker U+274C.
C5_TimeoutAloneHasItsOwnMarker ==
    \A i \in Inv :
        pc[i] = "done" /\ ErrorKind(user_id[i], outcome[i]) # "none"
        => /\ Len(returned[i]) = 1
           /\ returned[i][1].sec = "error"
           /\ returned[i][1].glyph =
                 (IF ErrorKind(user_id[i], outcome[i]) = "timeout"
                  THEN "U+23F1 U+FE0F" ELSE "U+274C")

\* Invocations that ended with an invalid-input, a timeout and a generic
\* error result.
C5_Witness ==
    \E i, j \in Inv :
        /\ pc[i] = "done" /\ pc[j] = "done"
        /\ ErrorKind(user_id[i], outcome[i]) = "invalid"
        /\ ErrorKind(user_id[j], outcome[j]) = "generic"
        /\ returned[i][1].glyph = returned[j][1].glyph

\* C6: every invocation ends by returning a text: one that waits for its
\* GET goes on to return (and never ends with an exception leaving it), and
\* one with an invalid identifier has returned without waiting.
C6_EveryInvocationReturns ==
    \A i \in Inv :
        /\ (pc[i] = "awaiting") ~> (pc[i] = "done" /\ returned[i] # <<>>)
        /\ [](pc[i] # "failed")

\* An invocation has returned after its GET timed out, and another after a
\* transport failure.
C6_Witness ==
    \E i, j \in Inv :
        /\ pc[i] = "done" /\ outcome[i] = Failure("ReadTimeout") /\ returned[i] # <<>>
        /\ pc[j] = "done" /\ outcome[j] = Failure("ConnectError") /\ returned[j] # <<>>

\* C10: whatever the interleaving, an invocation that has ended returned
\* what the same tool returns when run on its own with the same user_id and
\* the same outcome of its own GET, and sent the same requests; an idle
\* invocation holds nothing of an earlier one.
C10_Isolation ==
    \A i \in Inv :
        /\ pc[i] \in {"done", "failed"}
              => LET alone == run_tool(tool[i], user_id[i], outcome[i])
                 IN  /\ returned[i] = alone.ending.text
                     /\ (pc[i] = "done") = alone.ending.returned
                     /\ requests[i] = alone.sent
        /\ pc[i] = "awaiting" => requests[i] = <<url_for(strip(user_id[i]))>>
        /\ pc[i] = "idle" => returned[i] = <<>> /\ clean_id[i] = <<>> /\ requests[i] = <<>>

\* Two invocations with different identifiers were in flight together and
\* both have ended with a text naming their own identifier.
C10_Witness ==
    \E i, j \in Inv :
        /\ pc[i] = "done" /\ pc[j] = "done"
        /\ outcome[i].status = 404 /\ outcome[j].status = 404
        /\ clean_id[i] = IdA /\ clean_id[j] = IdB
        /\ returned[i][1].vals = <<Chars(IdA)>> /\ returned[j][1].vals = <<Chars(IdB)>>

(***************************************************************************)
(* Properties of one tool run on its own                                   *)
(***************************************************************************)
\* The run under test: its kind of error, its validated identifier, the way
\* it ended and the first fragment of its text.
RunKind == ErrorKind(arg.user_id, arg.outcome)

RunId == strip(arg.user_id)

RunText == ret.run.ending.text

\* C4: for a valid identifier each failure of the fetch has its own result
\* in all three tools: 404 the not-found text with the identifier, 429 the
\* rate-limit sentence, any other non-2xx status the API-error text with that
\* status, a timeout the timeout sentence with the identifier, any other
\* failure (transport error, body that is not a JSON object) the generic
\* error text.
C4_FailureMapping ==
    ret.done /\ RunKind \in {"not found", "rate limit", "http error", "timeout", "generic"}
    => /\ ret.run.ending.returned
       /\ Len(RunText) = 1
       /\ CASE RunKind = "not found" ->
                 /\ RunText[1].text \in {" User not found: {}",
                                         " User not found: {} (Discord user may not be using Lanyard)"}
                 /\ RunText[1].vals = <<Chars(RunId)>>
            [] RunKind = "rate limit" ->
                 RunText[1].text = " Rate limit exceeded. Please try again later."
            [] RunKind = "http error" ->
                 /\ RunText[1].text = " API Error: HTTP {}"
                 /\ RunText[1].vals = <<JInt(arg.outcome.status)>>
            [] RunKind = "timeout" ->
                 /\ RunText[1].text = " Request timed out while fetching user {}"
                 /\ RunText[1].vals = <<Chars(RunId)>>
            [] RunKind = "generic" ->
                 RunText[1].text = " Error: {}"

\* get_user_kv has returned the API-error text for a 503.
C4_Witness ==
    /\ ret.done /\ ret.tool = "get_user_kv"
    /\ arg.outcome = Response(503, None)
    /\ RunText[1].text = " API Error: HTTP {}" /\ RunText[1].vals = <<JInt(503)>>

\* C7: on a 2xx response whose body has success absent or false, each tool
\* returns the unsuccessful-response text naming the validated identifier and
\* nothing of the payload; a text with a rendered fragment comes only from a
\* body whose success is true.
C7_UnsuccessfulNeverRendered ==
    ret.done =>
        /\ RunKind = "unsuccessful" =>
              /\ ret.run.ending.returned
              /\ RunText = <<Frag("error", "U+274C",
                                  " API returned unsuccessful response for user {}",
                                  <<Chars(RunId)>>)>>
        /\ (\E k \in 1..Len(RunText) : RunText[k].sec \notin {"error", "nl"}) =>
              /\ HasKey(arg.outcome.body, "success")
              /\ dict_get(arg.outcome.body, "success", None) = JBool(TRUE)

\* get_user_presence has returned the unsuccessful-response text for a body
\* with success false and a data object with a kv mapping in it.
C7_Witness ==
    /\ ret.done /\ ret.tool = "get_user_presence"
    /\ RunKind = "unsuccessful"
    /\ HasKey(arg.outcome.body, "success")
    /\ HasKey(arg.outcome.body, "data")
    /\ Truthy(dict_get(dict_get(arg.outcome.body, "data", EmptyObj), "kv", EmptyObj))
    /\ Len(RunText) = 1

IsNotNL(f) == f.sec # "nl"

RECURSIVE SectionsFrom(_, _)
SectionsFrom(frags, k) ==
    IF k > Len(frags) THEN <<>>
    ELSE IF k > 1 /\ frags[k].sec = frags[k - 1].sec THEN SectionsFrom(frags, k + 1)
    ELSE <<frags[k].sec>> \o SectionsFrom(frags, k + 1)

\* The sections of a text in the order they appear, each run of fragments
\* of one section counted once.
Sections(text) == SectionsFrom(SelectSeq(text, IsNotNL), 1)

RunData == dict_get(arg.outcome.body, "data", EmptyObj)

FlagIsTrue(k) == HasKey(RunData, k) /\ dict_get(RunData, k, None) = JBool(TRUE)

SpotifyPresent == HasKey(RunData, "spotify") /\ dict_get(RunData, "spotify", None) # None

SpotifyNonEmpty == SpotifyPresent /\ Len(dict_get(RunData, "spotify", None).v) > 0

ExpectedSections(spotifyShown) ==
       <<"header", "status">>
    \o (IF FlagIsTrue("active_on_discord_desktop") THEN <<"desktop">> ELSE <<>>)
    \o (IF FlagIsTrue("active_on_discord_mobile") THEN <<"mobile">> ELSE <<>>)
    \o (IF spotifyShown THEN <<"spotify">> ELSE <<>>)
    \o (IF Len(dict_get(RunData, "activities", EmptyList).v) > 0 THEN <<"activities">> ELSE <<>>)
    \o (IF Len(dict_get(RunData, "kv", EmptyObj).v) > 0 THEN <<"kv">> ELSE <<>>)

PresenceRendered == ret.done /\ ret.tool = "get_user_presence" /\ RunKind = "none"

\* C8 as stated: the presence text has the sections header, status, device
\* lines, Spotify, Activities, KV in this order, each once, the Spotify block
\* iff listening_to_spotify is true and the spotify record is present.
C8_SpotifyBlockIffPresent ==
    PresenceRendered =>
        Sections(RunText) = ExpectedSections(FlagIsTrue("listening_to_spotify") /\ SpotifyPresent)

\* C8 as amended: the same order and conditions, the Spotify block iff
\* listening_to_spotify is true and the spotify record is present and not
\* empty.
C8_SpotifyBlockIffNonEmpty ==
    PresenceRendered =>
        Sections(RunText) = ExpectedSections(FlagIsTrue("listening_to_spotify") /\ SpotifyNonEmpty)

\* A presence text with all six kinds of section.
C8_Witness ==
    /\ PresenceRendered
    /\ Sections(RunText) = <<"header", "status", "desktop", "mobile", "spotify", "activities", "kv">>

\* C9: for a body with success true, whichever optional fields are absent,
\* each tool returns its normal text: never an error text, never an
\* exception that leaves it.
C9_AbsenceNeverRaises ==
    ret.done /\ RunKind = "none" =>
        /\ ret.run.ending.returned
        /\ \A k \in 1..Len(RunText) : RunText[k].sec # "error"
        /\ Len(RunText) > 0
        /\ RunText[1] # NL
        /\ CASE ret.tool = "get_user_presence" ->
                  RunText[1].text = " Discord Presence for {} ({})"
             [] ret.tool = "get_user_spotify" ->
                  RunText[1].text \in {" Spotify Status for {}",
                                       " {} is not currently listening to Spotify"}
             [] ret.tool = "get_user_kv" ->
                  RunText[1].text \in {" KV Data for {}", " {} has no custom KV data set"}

\* get_user_spotify has returned the not-listening sentence for "Unknown"
\* from a body that holds nothing but success: true.
C9_Witness ==
    /\ ret.done /\ ret.tool = "get_user_spotify"
    /\ arg.outcome.body = JObj(<<<<"success", JBool(TRUE)>>>>)
    /\ RunText = <<Frag("spotify", "U+1F3B5", " {} is not currently listening to Spotify",
                        <<JStr("Unknown")>>)>>

====
